---- MODULE Spec2Model ----
(***************************************************************************)
(* starlette_sqlalchemy.query.Query: the result-shaping operations over an *)
(* SQLAlchemy AsyncSession (one, one_or_none, one_or_raise,                *)
(* one_or_default, all, iterator, exists, count, choices).                 *)
(*                                                                         *)
(* The session is the environment: `table` is the data it serves, and the  *)
(* result objects it hands back (ScalarResult, AsyncResult) are modelled   *)
(* by what the calls made on them in query.py do.                          *)
(***************************************************************************)
EXTENDS Integers, Sequences, FiniteSets, TLC

VARIABLES table, call, prevAll

vars == <<table, call, prevAll>>

\* ---------------------------------------------------------------- bounds
MaxRows == 3
MaxLimit == 1
MaxBatch == 2

\* ---------------------------------------------------------------- values
\* Python values that flow through the executor, one record shape for all.
NoneV == [tag |-> "none", n |-> 0, s |-> ""]
IntV(i) == [tag |-> "int", n |-> i, s |-> ""]
StrV(t) == [tag |-> "str", n |-> 0, s |-> t]
BoolV(b) == [tag |-> "bool", n |-> IF b THEN 1 ELSE 0, s |-> ""]
ObjV(i, nm) == [tag |-> "obj", n |-> i, s |-> nm]

\* The scalar a row can carry: SQL NULL, the integer 0, the empty string,
\* and two mapped entities with fields id and name.
RowValues == {NoneV, IntV(0), StrV(""), ObjV(1, "a"), ObjV(2, "b")}

\* Python truthiness, as `entity if entity else default_value` and
\* `if count` test it.
Truthy(v) ==
    CASE v.tag = "none" -> FALSE
      [] v.tag = "int" -> v.n # 0
      [] v.tag = "bool" -> v.n = 1
      [] v.tag = "str" -> v.s # ""
      [] OTHER -> TRUE

\* ------------------------------------------------------------ exceptions
NoFault == "ok"
SessionFaults == {"OperationalError", "ProgrammingError", "IntegrityError"}
CallerErrors == {"UserNotFound", "HTTP404"}

\* class NoResultError(QueryError, NoResultFound)
\* class MultipleResultsError(QueryError, MultipleResultsFound)
IsInstance(exc, cls) ==
    \/ exc = cls
    \/ exc = "NoResultError" /\ cls \in {"QueryError", "NoResultFound"}
    \/ exc = "MultipleResultsError" /\ cls \in {"QueryError", "MultipleResultsFound"}

Return(v) == [kind |-> "return", val |-> v, items |-> <<>>, exc |-> NoFault]
ReturnItems(xs) == [kind |-> "return", val |-> NoneV, items |-> xs, exc |-> NoFault]
Raise(e) == [kind |-> "raise", val |-> NoneV, items |-> <<>>, exc |-> e]

\* ------------------------------------------------------------ statements
Min(a, b) == IF a < b THEN a ELSE b

Reverse(xs) == [i \in 1..Len(xs) |-> xs[Len(xs) + 1 - i]]

\* A built select: ordering and an optional LIMIT over the table.
Selects ==
    [kind : {"select"}, desc : BOOLEAN, limited : BOOLEAN, limit : 0..MaxLimit]

Statements == {q \in Selects : q.limited \/ q.limit = 0}

\* sa.select(sa.exists(stmt))
ExistsStmt(stmt) == [kind |-> "exists", sub |-> stmt]

\* sa.select(sa.func.count()).select_from(stmt.subquery())
CountStmt(stmt) == [kind |-> "count", sub |-> stmt]

\* The rows the database produces for a select, in database order.
SelectRows(q, t) ==
    LET ordered == IF q.desc THEN Reverse(t) ELSE t
    IN  IF q.limited THEN SubSeq(ordered, 1, Min(q.limit, Len(ordered)))
        ELSE ordered

\* await self.dbsession.scalars(stmt): the first column of every row.
Scalars(q, t) ==
    CASE q.kind = "select" -> SelectRows(q, t)
      [] q.kind = "exists" -> <<BoolV(Len(SelectRows(q.sub, t)) > 0)>>
      [] q.kind = "count" -> <<IntV(Len(SelectRows(q.sub, t)))>>

\* ScalarResult.one()
ResultOne(rows) ==
    IF Len(rows) = 0 THEN Raise("NoResultFound")
    ELSE IF Len(rows) > 1 THEN Raise("MultipleResultsFound")
    ELSE Return(rows[1])

\* ScalarResult.one_or_none()
ResultOneOrNone(rows) ==
    IF Len(rows) = 0 THEN Return(NoneV)
    ELSE IF Len(rows) > 1 THEN Raise("MultipleResultsFound")
    ELSE Return(rows[1])

\* ScalarResult.all()
ResultAll(rows) == rows

\* Collection(...): the ordered wrapper returned by all().
Collection(xs) == xs

\* ------------------------------------------------------------ operations
\* Query.one with a bare `except Exception` in place of the second clause.
OneBadCatchAll(stmt, t, fault) ==
    LET got == IF fault # NoFault THEN Raise(fault) ELSE ResultOne(Scalars(stmt, t))
    IN  IF got.kind = "raise"
        THEN IF IsInstance(got.exc, "MultipleResultsFound")
             THEN Raise("MultipleResultsError")
             ELSE Raise("NoResultError")
        ELSE got

\* Query.one calling rows.one_or_none() and translating nothing.
OneBadNoTranslate(stmt, t, fault) ==
    IF fault # NoFault THEN Raise(fault) ELSE ResultOneOrNone(Scalars(stmt, t))

\* Query.one
QOne(stmt, t, fault) ==
    LET got == IF fault # NoFault THEN Raise(fault) ELSE ResultOne(Scalars(stmt, t))
    IN  IF got.kind = "raise" /\ IsInstance(got.exc, "NoResultFound")
        THEN Raise("NoResultError")
        ELSE IF got.kind = "raise" /\ IsInstance(got.exc, "MultipleResultsFound")
        THEN Raise("MultipleResultsError")
        ELSE got

\* Query.one_or_none calling rows.first(): no cardinality check.
OneOrNoneBadFirst(stmt, t, fault) ==
    LET rows == Scalars(stmt, t)
    IN  IF fault # NoFault THEN Raise(fault)
        ELSE IF Len(rows) = 0 THEN Return(NoneV) ELSE Return(rows[1])

\* Query.one_or_none
QOneOrNone(stmt, t, fault) ==
    LET got == IF fault # NoFault THEN Raise(fault)
               ELSE ResultOneOrNone(Scalars(stmt, t))
    IN  IF got.kind = "raise" /\ IsInstance(got.exc, "MultipleResultsFound")
        THEN Raise("MultipleResultsError")
        ELSE got

\* Query.one_or_raise
QOneOrRaise(stmt, exc, t, fault) ==
    LET entity == QOneOrNone(stmt, t, fault)
    IN  IF entity.kind = "raise" THEN entity
        ELSE IF entity.val = NoneV THEN Raise(exc)
        ELSE entity

\* Query.one_or_default testing `entity is not None`.
OneOrDefaultBadIsNone(stmt, default, t, fault) ==
    LET entity == QOneOrNone(stmt, t, fault)
    IN  IF entity.kind = "raise" THEN entity
        ELSE IF entity.val # NoneV THEN entity ELSE Return(default)

\* Query.one_or_default
QOneOrDefault(stmt, default, t, fault) ==
    LET entity == QOneOrNone(stmt, t, fault)
    IN  IF entity.kind = "raise" THEN entity
        ELSE IF Truthy(entity.val) THEN entity ELSE Return(default)

\* Query.all losing the statement's ordering.
AllBadTableOrder(stmt, t, fault) ==
    IF fault # NoFault THEN Raise(fault)
    ELSE ReturnItems(Collection(ResultAll(Scalars([stmt EXCEPT !.desc = FALSE], t))))

\* Query.all
QAll(stmt, t, fault) ==
    IF fault # NoFault THEN Raise(fault)
    ELSE ReturnItems(Collection(ResultAll(Scalars(stmt, t))))

\* Query.exists
QExists(stmt, t, fault) ==
    LET result == IF fault # NoFault THEN Raise(fault)
                  ELSE ResultOne(Scalars(ExistsStmt(stmt), t))
    IN  IF result.kind = "raise" THEN result
        ELSE Return(BoolV(result.val = BoolV(TRUE)))

\* Query.count counting the base rows instead of the sub-query.
CountBadNoSubquery(stmt, t, fault) ==
    LET result == IF fault # NoFault THEN Raise(fault)
                  ELSE ResultOne(Scalars(CountStmt([stmt EXCEPT !.limited = FALSE, !.limit = 0]), t))
    IN  IF result.kind = "raise" THEN result
        ELSE IF Truthy(result.val) THEN Return(IntV(result.val.n)) ELSE Return(IntV(0))

\* Query.count
QCount(stmt, t, fault) ==
    LET result == IF fault # NoFault THEN Raise(fault)
                  ELSE ResultOne(Scalars(CountStmt(stmt), t))
    IN  IF result.kind = "raise" THEN result
        ELSE IF Truthy(result.val) THEN Return(IntV(result.val.n)) ELSE Return(IntV(0))

\* ------------------------------------------------------------- selectors
\* A choices() argument: a field name (str), a callable, or left out.
Field(name) == [form |-> "field", name |-> name]
Func(name) == [form |-> "func", name |-> name]
Omitted == [form |-> "omitted", name |-> ""]

LabelArgs == {Omitted, Field("name"), Field("missing"), Func("upper")}
ValueArgs == {Omitted, Field("id"), Field("missing"), Func("id10")}

\* label_attr: typing.Any = str
DefaultLabel == Func("str")

\* value_attr: typing.Any = "id"
DefaultValue == Field("id")

\* str(item): the row's string representation.
Str(item) ==
    CASE item.tag = "none" -> "None"
      [] item.tag = "int" -> IF item.n = 0 THEN "0" ELSE "int"
      [] item.tag = "str" -> item.s
      [] item.tag = "obj" -> IF item.n = 1 THEN "<User 1>" ELSE "<User 2>"
      [] OTHER -> IF item.n = 1 THEN "True" ELSE "False"

\* str.upper()
Upper(t) == IF t = "a" THEN "A" ELSE IF t = "b" THEN "B" ELSE t

\* operator.attrgetter(name)(item)
AttrGetter(name, item) ==
    IF item.tag = "obj" /\ name = "id" THEN Return(IntV(item.n))
    ELSE IF item.tag = "obj" /\ name = "name" THEN Return(StrV(item.s))
    ELSE Raise("AttributeError")

\* The callables a caller passes: str, lambda r: r.id * 10,
\* lambda r: r.name.upper().
ApplyFunc(name, item) ==
    CASE name = "str" -> Return(StrV(Str(item)))
      [] name = "id10" ->
           LET id == AttrGetter("id", item)
           IN  IF id.kind = "raise" THEN id ELSE Return(IntV(id.val.n * 10))
      [] name = "upper" ->
           LET nm == AttrGetter("name", item)
           IN  IF nm.kind = "raise" THEN nm ELSE Return(StrV(Upper(nm.val.s)))

\* A field name treated as a callable default instead of an attribute.
GetterBadSwapped(sel, item) ==
    IF sel.form = "field" THEN ApplyFunc("str", item)
    ELSE ApplyFunc(sel.name, item)

\* isinstance(label_attr, str) picks attrgetter, else the callable itself.
Getter(sel, item) ==
    IF sel.form = "field" THEN AttrGetter(sel.name, item)
    ELSE ApplyFunc(sel.name, item)

\* for item in ...: yield value_getter(item), label_getter(item)
RECURSIVE Project(_, _, _)
Project(items, value_getter, label_getter) ==
    IF items = <<>> THEN ReturnItems(<<>>)
    ELSE LET v == Getter(value_getter, Head(items))
             l == Getter(label_getter, Head(items))
         IN  IF v.kind = "raise" THEN v
             ELSE IF l.kind = "raise" THEN l
             ELSE LET rest == Project(Tail(items), value_getter, label_getter)
                  IN  [rest EXCEPT !.items = <<<<v.val, l.val>>>> \o @]

\* Query.choices, driven by the caller until it ends or raises.
QChoices(stmt, label_attr, value_attr, t, fault) ==
    LET label_getter == IF label_attr = Omitted THEN DefaultLabel ELSE label_attr
        value_getter == IF value_attr = Omitted THEN DefaultValue ELSE value_attr
        rows == QAll(stmt, t, fault)
    IN  IF rows.kind = "raise" THEN rows
        ELSE Project(rows.items, value_getter, label_getter)

\* -------------------------------------------------------------- iterator
\* await self.dbsession.stream(stmt): Row tuples behind a server-side cursor.
Stream(stmt, t) ==
    LET rows == SelectRows(stmt, t)
    IN  [i \in 1..Len(rows) |-> <<rows[i]>>]

\* One step of result.partitions(batch_size): up to batch_size rows.
Partition(pending, batch_size) ==
    SubSeq(pending, 1, Min(batch_size, Len(pending)))

Rest(pending, batch_size) ==
    SubSeq(pending, Min(batch_size, Len(pending)) + 1, Len(pending))

\* Yielding another column of the row (the entity's key, not the entity).
YieldedBadColumn(row) == IF row[1].tag = "obj" THEN IntV(row[1].n) ELSE row[1]

\* yield row[0]
Yielded(row) == row[1]

BatchSizes == 1..MaxBatch

Live == {"idle", "fetching", "yielding"}

\* ---------------------------------------------------------------- state
NoCall == [op |-> "none"]

NoPrev == [set |-> FALSE]

Faults == SessionFaults \cup {NoFault}

Init ==
    /\ table = <<>>
    /\ call = NoCall
    /\ prevAll = NoPrev

\* Another transaction commits a row.
DbInsert ==
    /\ call = NoCall
    /\ Len(table) < MaxRows
    /\ \E r \in RowValues : table' = Append(table, r)
    /\ call' = call
    /\ prevAll' = NoPrev

DbDelete ==
    /\ call = NoCall
    /\ table # <<>>
    /\ table' = Tail(table)
    /\ call' = call
    /\ prevAll' = NoPrev

CallOne ==
    /\ call = NoCall
    /\ \E stmt \in Statements, fault \in Faults :
         call' = [op |-> "one", stmt |-> stmt, fault |-> fault,
                  outcome |-> QOne(stmt, table, fault)]
    /\ UNCHANGED <<table, prevAll>>

CallOneOrNone ==
    /\ call = NoCall
    /\ \E stmt \in Statements, fault \in Faults :
         call' = [op |-> "one_or_none", stmt |-> stmt, fault |-> fault,
                  outcome |-> QOneOrNone(stmt, table, fault)]
    /\ UNCHANGED <<table, prevAll>>

CallOneOrRaise ==
    /\ call = NoCall
    /\ \E stmt \in Statements, exc \in CallerErrors, fault \in Faults :
         call' = [op |-> "one_or_raise", stmt |-> stmt, fault |-> fault, exc |-> exc,
                  outcome |-> QOneOrRaise(stmt, exc, table, fault)]
    /\ UNCHANGED <<table, prevAll>>

CallOneOrDefault ==
    /\ call = NoCall
    /\ \E stmt \in Statements, d \in {StrV("n/a"), IntV(0)}, fault \in Faults :
         call' = [op |-> "one_or_default", stmt |-> stmt, fault |-> fault,
                  default |-> d,
                  outcome |-> QOneOrDefault(stmt, d, table, fault)]
    /\ UNCHANGED <<table, prevAll>>

CallAll ==
    /\ call = NoCall
    /\ \E stmt \in Statements, fault \in Faults :
         LET out == QAll(stmt, table, fault)
         IN  /\ call' = [op |-> "all", stmt |-> stmt, fault |-> fault,
                         prev |-> prevAll, outcome |-> out]
             /\ prevAll' = IF out.kind = "return"
                           THEN [set |-> TRUE, stmt |-> stmt, items |-> out.items]
                           ELSE prevAll
    /\ UNCHANGED table

CallExists ==
    /\ call = NoCall
    /\ \E stmt \in Statements, fault \in Faults :
         call' = [op |-> "exists", stmt |-> stmt, fault |-> fault,
                  outcome |-> QExists(stmt, table, fault)]
    /\ UNCHANGED <<table, prevAll>>

CallCount ==
    /\ call = NoCall
    /\ \E stmt \in Statements, fault \in Faults :
         call' = [op |-> "count", stmt |-> stmt, fault |-> fault,
                  outcome |-> QCount(stmt, table, fault)]
    /\ UNCHANGED <<table, prevAll>>

CallChoices ==
    /\ call = NoCall
    /\ \E stmt \in Statements, label \in LabelArgs, value \in ValueArgs, fault \in Faults :
         call' = [op |-> "choices", stmt |-> stmt, fault |-> fault,
                  label |-> label, value |-> value,
                  outcome |-> QChoices(stmt, label, value, table, fault)]
    /\ UNCHANGED <<table, prevAll>>

\* Query.iterator(stmt, batch_size): the generator object, not yet started.
IterCall ==
    /\ call = NoCall
    /\ \E stmt \in Statements, batch_size \in BatchSizes :
         call' = [op |-> "iterator", stmt |-> stmt, fault |-> NoFault,
                  batch_size |-> batch_size, state |-> "idle",
                  cursorOpen |-> FALSE, pending |-> <<>>, partition |-> <<>>,
                  yielded |-> <<>>, fetches |-> 0]
    /\ UNCHANGED <<table, prevAll>>

\* result = await self.dbsession.stream(stmt)
IterStart ==
    /\ call.op = "iterator" /\ call.state = "idle"
    /\ \E fault \in Faults :
         call' = IF fault # NoFault
                 THEN [call EXCEPT !.state = "failed", !.fault = fault]
                 ELSE [call EXCEPT !.state = "fetching", !.cursorOpen = TRUE,
                                   !.pending = Stream(call.stmt, table)]
    /\ UNCHANGED <<table, prevAll>>

\* async for partition in result.partitions(batch_size)
IterFetch ==
    /\ call.op = "iterator" /\ call.state = "fetching"
    /\ \E fault \in Faults :
         call' = IF fault # NoFault
                 THEN [call EXCEPT !.state = "failed", !.fault = fault]
                 ELSE IF call.pending = <<>>
                 THEN [call EXCEPT !.state = "exhausted", !.cursorOpen = FALSE,
                                   !.fetches = @ + 1]
                 ELSE [call EXCEPT !.state = "yielding",
                                   !.partition = Partition(call.pending, call.batch_size),
                                   !.pending = Rest(call.pending, call.batch_size),
                                   !.fetches = @ + 1]
    /\ UNCHANGED <<table, prevAll>>

\* for row in partition: yield row[0]
IterYield ==
    /\ call.op = "iterator" /\ call.state = "yielding"
    /\ call' = [call EXCEPT !.yielded = Append(@, Yielded(Head(call.partition))),
                            !.partition = Tail(@),
                            !.state = IF Tail(call.partition) = <<>>
                                      THEN "fetching" ELSE "yielding"]
    /\ UNCHANGED <<table, prevAll>>

\* The caller drops the sequence before it is exhausted.  The generator
\* body holds no try/finally and no close() of the result.
IterAbandon ==
    /\ call.op = "iterator" /\ call.state \in Live
    /\ call' = [call EXCEPT !.state = "abandoned"]
    /\ UNCHANGED <<table, prevAll>>

\* The caller has taken the outcome; the executor keeps nothing.
Finish ==
    /\ call # NoCall
    /\ call.op = "iterator" => call.state \notin Live
    /\ call' = NoCall
    /\ UNCHANGED <<table, prevAll>>

Next ==
    \/ DbInsert
    \/ DbDelete
    \/ CallOne
    \/ CallOneOrNone
    \/ CallOneOrRaise
    \/ CallOneOrDefault
    \/ CallAll
    \/ CallExists
    \/ CallCount
    \/ CallChoices
    \/ IterCall
    \/ IterStart
    \/ IterFetch
    \/ IterYield
    \/ IterAbandon
    \/ Finish

Spec == Init /\ [][Next]_vars

\* ------------------------------------------------- iterator, driven alone
\* Every data set of up to MaxRows rows.
Tables == UNION {[1..n -> RowValues] : n \in 0..MaxRows}

IterInit ==
    /\ table \in Tables
    /\ call = NoCall
    /\ prevAll = NoPrev

IterDrive == IterStart \/ IterFetch \/ IterYield

IterNext ==
    \/ IterCall
    \/ IterStart
    \/ IterFetch
    \/ IterYield
    \/ IterAbandon
    \/ Finish

\* The caller keeps asking for the next item and the session keeps answering.
IterSpec == IterInit /\ [][IterNext]_vars /\ WF_vars(IterDrive)

\* ---------------------------------------------------------------- claims
\* The rows the statement of the current call yields, and how many.
Rows == SelectRows(call.stmt, table)
N == Len(Rows)

Answered(op) == call.op = op /\ call.fault = NoFault

\* C1: one(query) returns the row when the query yields exactly one row,
\* fails with NoResultError on zero rows and with MultipleResultsError on
\* more than one row, and returns nothing in those two cases.
OneCardinality ==
    Answered("one") =>
        /\ N = 1 => call.outcome = Return(Rows[1])
        /\ N = 0 => call.outcome = Raise("NoResultError")
        /\ N > 1 => call.outcome = Raise("MultipleResultsError")

OneCardinalityWitness ==
    /\ Answered("one") /\ N > 1
    /\ call.outcome.kind = "raise" /\ call.outcome.exc = "MultipleResultsError"

\* C2: one_or_none(query) returns None on zero rows, the row on exactly one
\* row, fails with MultipleResultsError on more than one row, and never
\* fails with NoResultError.
OneOrNoneCardinality ==
    call.op = "one_or_none" =>
        /\ call.outcome.exc # "NoResultError"
        /\ call.fault = NoFault =>
              /\ N = 0 => call.outcome = Return(NoneV)
              /\ N = 1 => call.outcome = Return(Rows[1])
              /\ N > 1 => call.outcome = Raise("MultipleResultsError")

OneOrNoneCardinalityWitness ==
    /\ Answered("one_or_none") /\ N = 0
    /\ call.outcome.kind = "return" /\ call.outcome.val = NoneV

\* C3: one_or_raise(query, E) fails with E when one_or_none(query) is empty,
\* returns the row when the query yields exactly one row, and fails with
\* MultipleResultsError on more than one row.
OneOrRaiseCardinality ==
    Answered("one_or_raise") =>
        /\ QOneOrNone(call.stmt, table, NoFault) = Return(NoneV)
              => call.outcome = Raise(call.exc)
        /\ N = 1 => call.outcome = Return(Rows[1])
        /\ N > 1 => call.outcome = Raise("MultipleResultsError")

\* C4: one_or_default(query, d) returns d on zero rows and on a single row
\* whose value is falsy (NULL, 0, ""), returns the row only when it is the
\* single row and truthy, and fails with MultipleResultsError on more than
\* one row.
OneOrDefaultFalsy ==
    Answered("one_or_default") =>
        /\ N = 0 => call.outcome = Return(call.default)
        /\ N = 1 /\ Rows[1] \in {NoneV, IntV(0), StrV("")}
              => call.outcome = Return(call.default)
        /\ N = 1 /\ Rows[1] \notin {NoneV, IntV(0), StrV("")}
              => call.outcome = Return(Rows[1])
        /\ N > 1 => call.outcome = Raise("MultipleResultsError")

OneOrDefaultFalsyWitness ==
    /\ Answered("one_or_default") /\ N = 1 /\ Rows[1] = IntV(0)
    /\ call.default = StrV("n/a")
    /\ call.outcome = Return(StrV("n/a"))

\* What all(query) returns for the statement of the current call.
AllItems == QAll(call.stmt, table, NoFault).items

Unwrap(rows) == [i \in 1..Len(rows) |-> rows[i][1]]

\* Nothing is lost, repeated or reordered while the cursor is read: what
\* was yielded, the batch in hand and what the cursor still holds are, put
\* end to end, the rows of all(query).
IteratorInOrder ==
    call.op = "iterator" =>
        /\ call.state \in {"fetching", "yielding"} =>
              call.yielded \o Unwrap(call.partition) \o Unwrap(call.pending) = AllItems
        /\ Len(call.partition) <= call.batch_size
        /\ Len(call.yielded) <= Len(AllItems)
        /\ call.yielded = SubSeq(AllItems, 1, Len(call.yielded))
        /\ call.state = "exhausted" => call.yielded = AllItems

\* C5: for every batch_size >= 1, iterator(query, batch_size) yields each of
\* the N rows once, in the order of all(query), and a sequence that is
\* driven ends (exhausted, unless it is abandoned or the session fails);
\* the batch size decides the number of fetches only.
IteratorYieldsAll ==
    /\ []IteratorInOrder
    /\ (call.op = "iterator") ~>
          (call.op = "iterator" /\ call.state \in {"exhausted", "abandoned", "failed"})

IteratorYieldsAllWitness ==
    /\ call.op = "iterator" /\ call.state = "exhausted"
    /\ call.batch_size = 2 /\ Len(call.yielded) = 3 /\ call.fetches = 3
    /\ call.yielded = AllItems

\* C6: a sequence abandoned before it is exhausted has released its
\* server-side cursor.
AbandonReleasesCursor ==
    call.op = "iterator" /\ call.state = "abandoned" => ~call.cursorOpen

\* C7: a fault of the session reaches the caller as the fault the session
\* raised, in every operation, and NoResultError and MultipleResultsError
\* stand for a cardinality violation only.
FaultsPropagate ==
    /\ call.op \notin {"none", "iterator"} /\ call.fault # NoFault
          => call.outcome = Raise(call.fault)
    /\ call.op = "iterator" /\ call.fault # NoFault => call.state = "failed"
    /\ call.op \notin {"none", "iterator"} /\ call.outcome.exc = "NoResultError"
          => call.op = "one" /\ call.fault = NoFault /\ N = 0
    /\ call.op \notin {"none", "iterator"} /\ call.outcome.exc = "MultipleResultsError"
          => /\ call.op \in {"one", "one_or_none", "one_or_raise", "one_or_default"}
             /\ call.fault = NoFault /\ N > 1

FaultsPropagateWitness ==
    /\ call.op = "one" /\ call.fault = "OperationalError" /\ N = 0
    /\ call.outcome = Raise("OperationalError")

\* C8: all(query) returns every row the query yields, in database order,
\* and the same collection again when called again on unchanged data.
AllReturnsRows ==
    Answered("all") =>
        /\ call.outcome.kind = "return"
        /\ Len(call.outcome.items) = N
        /\ \A i \in 1..N : call.outcome.items[i] = Rows[i]
        /\ call.prev.set /\ call.prev.stmt = call.stmt
              => call.outcome.items = call.prev.items

AllReturnsRowsWitness ==
    /\ Answered("all") /\ N = 3 /\ call.stmt.desc
    /\ call.prev.set /\ call.prev.stmt = call.stmt
    /\ call.outcome.items = <<table[3], table[2], table[1]>>
    /\ table[1] # table[3]

\* C9: count(query) is the number N of rows the query yields after its own
\* ordering and limit, 0 when there are none, and exists(query) is true
\* exactly when N >= 1.
CountAndExists ==
    /\ Answered("count") => call.outcome = Return(IntV(N))
    /\ Answered("exists") => call.outcome = Return(BoolV(N >= 1))

CountAndExistsWitness ==
    /\ Answered("count") /\ call.stmt.limited /\ call.stmt.limit = 1
    /\ Len(table) = 2 /\ call.outcome = Return(IntV(1))

\* What the selectors are documented to give for a row, and where they fail.
ValueOf(sel, r) ==
    CASE sel = Omitted -> IntV(r.n)
      [] sel = Field("id") -> IntV(r.n)
      [] sel = Func("id10") -> IntV(10 * r.n)

LabelOf(sel, r) ==
    CASE sel = Omitted -> StrV(Str(r))
      [] sel = Field("name") -> StrV(r.s)
      [] sel = Func("upper") -> StrV(IF r.s = "a" THEN "A" ELSE "B")

Fails(label, value, r) ==
    \/ label = Field("missing") \/ value = Field("missing")
    \/ r.tag # "obj"

\* C10: choices(query, label, value) yields one (value, label) pair per row
\* of all(query), in row order, value first; a field name is looked up on
\* the row, a function is applied to it, the defaults are str(row) and
\* row.id, and a selector that fails reaches the caller instead of the row
\* being skipped.
ChoicesProjects ==
    Answered("choices") =>
        IF \E i \in 1..N : Fails(call.label, call.value, Rows[i])
        THEN call.outcome.kind = "raise" /\ call.outcome.exc = "AttributeError"
        ELSE /\ call.outcome.kind = "return"
             /\ Len(call.outcome.items) = Len(AllItems)
             /\ \A i \in 1..Len(AllItems) :
                   call.outcome.items[i] =
                       <<ValueOf(call.value, AllItems[i]), LabelOf(call.label, AllItems[i])>>

ChoicesProjectsWitness ==
    /\ Answered("choices") /\ table = <<ObjV(1, "a"), ObjV(2, "b")>>
    /\ ~call.stmt.desc /\ ~call.stmt.limited
    /\ call.label = Field("name") /\ call.value = Field("id")
    /\ call.outcome.items = << <<IntV(1), StrV("a")>>, <<IntV(2), StrV("b")>> >>
====
